---------------------------- MODULE Spec2Model ----------------------------
(***************************************************************************)
(* A model of src/main.py (Detector Scout): the GridCanvas widget (grid    *)
(* addressing, exclusion rectangles, quadcopter animation, visited cells,  *)
(* pins), the SerialReceiver background reader and the MainWindow slots.   *)
(*                                                                         *)
(* Units.  Plane coordinates and velocities are integers counted in        *)
(* twentieths of a pixel (Px(1) = 20), so that size = cell_size * 0.9,     *)
(* half = size / 2, the 0.6 jitter, the 0.15 minimum speed and the 1.3     *)
(* fallback velocity are all exact.  Battery levels are counted in         *)
(* hundredths of a percent.  Calls of random.uniform are nondeterministic  *)
(* choices from finite samples of the range.                               *)
(*                                                                         *)
(* Strings are sequences of ASCII codes.                                   *)
(***************************************************************************)
EXTENDS Integers, Sequences, FiniteSets

VARIABLES
    cell_size,      \* GridCanvas.cell_size (pixels)
    width,          \* GridCanvas.width() (pixels)
    height,         \* GridCanvas.height() (pixels)
    quadcopters,    \* GridCanvas.quadcopters: list of agents
    purple_drone,   \* GridCanvas.purple_drone: <<>> is None, <<d>> is the dict d
    timer_active,   \* GridCanvas._anim_timer.isActive()
    rectangles,     \* GridCanvas.rectangles: list of QRectF
    pins,           \* GridCanvas.pins: list of (row_letter, col_num)
    purple_pins,    \* GridCanvas.purple_pins: list of (row_letter, col_num)
    visited,        \* GridCanvas.visited: set of (row_idx, col_idx)
    rx_thread,      \* SerialReceiver._thread: "none", "alive" or "dead"
    rx_stop,        \* SerialReceiver._stop (threading.Event)
    rx_pc,          \* position of the worker inside SerialReceiver._run
    rx_raw,         \* the local raw of SerialReceiver._run: the line last read
    pending,        \* got_pin emissions queued for the GUI thread
    last_call,      \* the most recent call at the model's interface, with its result
    ticks           \* number of _tick calls so far (bounds the model)

vars == <<cell_size, width, height, quadcopters, purple_drone, timer_active,
          rectangles, pins, purple_pins, visited, rx_thread, rx_stop, rx_pc,
          rx_raw, pending, last_call, ticks>>

canvas_vars == <<cell_size, width, height, quadcopters, purple_drone,
                 timer_active, rectangles, pins, purple_pins, visited, ticks>>

serial_vars == <<rx_thread, rx_stop, rx_pc, rx_raw, pending>>

---------------------------------------------------------------------------
(* Bounds of the model.                                                    *)

\* largest count passed to start_quads
MaxCount == 1

\* number of _tick calls explored
MaxTicks == 2

\* largest number of user-drawn rectangles
MaxRects == 1

\* largest number of queued got_pin emissions
MaxPending == 2

\* largest index given to _index_to_letters
MaxIndex == 800

\* longest string given to _letters_to_index
MaxLen == 3

---------------------------------------------------------------------------
(* Arithmetic helpers.                                                     *)

Px(n) == 20 * n

Max(a, b) == IF a >= b THEN a ELSE b

Abs(a) == IF a >= 0 THEN a ELSE -a

Sign(a) == IF a > 0 THEN 1 ELSE IF a < 0 THEN -1 ELSE 0

Reverse(s) == [i \in 1..Len(s) |-> s[Len(s) + 1 - i]]

---------------------------------------------------------------------------
(* Characters and strings.                                                 *)

IsUpperLetter(ch) == 65 <= ch /\ ch <= 90

IsLowerLetter(ch) == 97 <= ch /\ ch <= 122

IsLetter(ch) == IsUpperLetter(ch) \/ IsLowerLetter(ch)

IsDigit(ch) == 48 <= ch /\ ch <= 57

IsSpace(ch) == ch \in {9, 10, 13, 32}

\* str.upper(), on ASCII
upper(s) == [i \in 1..Len(s) |-> IF IsLowerLetter(s[i]) THEN s[i] - 32 ELSE s[i]]

\* str.strip(): leading and trailing whitespace removed
strip(s) ==
    LET kept == {i \in 1..Len(s) : ~IsSpace(s[i])}
    IN  IF kept = {} THEN <<>>
        ELSE LET first == CHOOSE i \in kept : \A j \in kept : i <= j
                 last == CHOOSE i \in kept : \A j \in kept : j <= i
             IN  SubSeq(s, first, last)

---------------------------------------------------------------------------
(* Grid addressing: GridCanvas._index_to_letters, _letters_to_index.       *)

RECURSIVE index_to_letters_loop(_, _)
index_to_letters_loop(n, result) ==
    IF n > 0
    THEN index_to_letters_loop((n - 1) \div 26, Append(result, 65 + ((n - 1) % 26)))
    ELSE result

\* the loop with divmod(n, 26) in place of divmod(n - 1, 26)
RECURSIVE index_to_letters_zero_digit(_)
index_to_letters_zero_digit(n) ==
    IF n > 0
    THEN Append(index_to_letters_zero_digit(n \div 26), 65 + (n % 26))
    ELSE <<>>

_index_to_letters(n) == Reverse(index_to_letters_loop(n, <<>>))

RECURSIVE letters_to_index_loop(_, _)
letters_to_index_loop(s, val) ==
    IF s = <<>> THEN val
    ELSE letters_to_index_loop(Tail(s),
             IF IsUpperLetter(Head(s)) THEN val * 26 + (Head(s) - 65 + 1) ELSE val)

_letters_to_index(s) == letters_to_index_loop(strip(upper(s)), 0)

---------------------------------------------------------------------------
(* Samples of the random draws.                                            *)

\* (random.uniform(-2.2, 2.2) * 1.3, random.uniform(-2.2, 2.2) * 1.3), a velocity
\* with components in [-2.86, 2.86] px: fast on one axis and slow on the other
VelSamples == {<<-57, 10>>, <<10, -57>>}

\* random.uniform(-0.6, 0.6), the perturbation of a bounce
JitterSamples == {12}

\* random.uniform(lo, 100.0), a battery percentage
BatterySamples(lo) == {100 * lo}

---------------------------------------------------------------------------
(* Geometry: the playable area and QRectF.intersects.                      *)

Planes == {[cs |-> 70, w |-> 400, h |-> 300], [cs |-> 200, w |-> 400, h |-> 300]}

Area ==
    LET area_x0 == Px(cell_size)
        area_y0 == Px(cell_size)
    IN  [x0 |-> area_x0, y0 |-> area_y0,
         x1 |-> Max(area_x0 + Px(10), Px(Max(1, width)) - Px(cell_size)),
         y1 |-> Max(area_y0 + Px(10), Px(Max(1, height)) - Px(cell_size))]

\* size = cs * 0.9
QuadSize == 18 * cell_size

QRectF(x, y, w, h) == [x |-> x, y |-> y, w |-> w, h |-> h]

\* the box of side size centred on (x, y)
BBox(x, y, size) == QRectF(x - size \div 2, y - size \div 2, size, size)

\* QRectF.intersects with touching edges counted as intersecting
intersects_inclusive(a, b) ==
    /\ a.x <= b.x + b.w /\ b.x <= a.x + a.w
    /\ a.y <= b.y + b.h /\ b.y <= a.y + a.h

\* QRectF.intersects for rectangles of width and height >= 0: a rectangle of
\* zero width or height intersects nothing, touching edges do not intersect
intersects(a, b) ==
    /\ a.w # 0 /\ b.w # 0
    /\ ~(a.x >= b.x + b.w \/ b.x >= a.x + a.w)
    /\ a.h # 0 /\ b.h # 0
    /\ ~(a.y >= b.y + b.h \/ b.y >= a.y + a.h)

_bbox_intersects_rects(bbox) ==
    \E i \in 1..Len(rectangles) : intersects(bbox, rectangles[i])

QuadBox(q) == BBox(q.x, q.y, q.size)

---------------------------------------------------------------------------
(* GridCanvas.start_quads and GridCanvas.stop_quads.                       *)

Quad(x, y, vx, vy, size, bat) ==
    [x |-> x, y |-> y, vx |-> vx, vy |-> vy, size |-> size, battery |-> bat]

\* The positions (random.uniform(...), random.uniform(...)) can draw inside the
\* playable area, sampled by the two ends of the diagonal of the range and,
\* where the range holds it, by a point one pixel right of the line between
\* the first and the second content column.
StartPositions ==
    LET a == Area
        lo == <<a.x0 + Px(10), a.y0 + Px(10)>>
        hi == <<Max(a.x0 + Px(11), a.x1 - Px(10)), Max(a.y0 + Px(11), a.y1 - Px(10))>>
        line == 2 * Px(cell_size) + Px(1)
    IN  {lo, hi} \cup IF line <= hi[1] THEN {<<line, lo[2]>>} ELSE {}

FreePositions(size) ==
    {p \in StartPositions : ~_bbox_intersects_rects(BBox(p[1], p[2], size))}

\* One ordinary quadcopter as start_quads places it: at a drawn position whose
\* box meets no rectangle, or, when every attempt drew a blocked position, at
\* one more drawn position.
PlacedQuads ==
    LET size == QuadSize
        free == FreePositions(size)
        fallback == IF free # StartPositions THEN StartPositions ELSE {}
    IN  {Quad(p[1], p[2], v[1], v[2], size, bat) :
            p \in free \cup fallback, v \in VelSamples, bat \in BatterySamples(60)}

\* The purple drone as start_quads places it; its fallback is a fixed drone.
PlacedPurple ==
    LET size == QuadSize
        a == Area
        free == FreePositions(size)
        placed == {Quad(p[1], p[2], v[1], v[2], size, bat) :
                      p \in free, v \in VelSamples, bat \in BatterySamples(80)}
        fallback == IF free # StartPositions
                    THEN {Quad(a.x0 + Px(20), a.y0 + Px(20), 26, -26, size, 9000)}
                    ELSE {}
    IN  placed \cup fallback

\* stop_quads that also forgets the visited cells
stop_quads_forget_visited ==
    /\ timer_active' = FALSE
    /\ quadcopters' = <<>>
    /\ purple_drone' = <<>>
    /\ purple_pins' = <<>>
    /\ visited' = {}
    /\ UNCHANGED <<cell_size, width, height, rectangles, pins, ticks>>

\* stop_quads that removes the purple drone only together with quadcopters
stop_quads_only_with_quadcopters ==
    /\ timer_active' = FALSE
    /\ quadcopters' = <<>>
    /\ purple_drone' = IF quadcopters # <<>> THEN <<>> ELSE purple_drone
    /\ purple_pins' = <<>>
    /\ UNCHANGED <<cell_size, width, height, rectangles, pins, visited, ticks>>

\* stop_quads that leaves the purple pins alone
stop_quads_keep_purple_pins ==
    /\ timer_active' = FALSE
    /\ quadcopters' = <<>>
    /\ purple_drone' = <<>>
    /\ UNCHANGED <<cell_size, width, height, rectangles, pins, purple_pins, visited, ticks>>

stop_quads ==
    /\ timer_active' = FALSE
    /\ quadcopters' = <<>>
    /\ purple_drone' = <<>>
    /\ purple_pins' = <<>>
    /\ UNCHANGED <<cell_size, width, height, rectangles, pins, visited, ticks>>

\* start_quads that keeps the quadcopters of the previous run
start_quads_accumulate(count) ==
    /\ \E qs \in [1..count -> PlacedQuads] :
          quadcopters' = quadcopters \o [i \in 1..count |-> qs[i]]
    /\ \E pd \in PlacedPurple : purple_drone' = <<pd>>
    /\ timer_active' = (quadcopters' # <<>>)
    /\ purple_pins' = <<>>
    /\ UNCHANGED <<cell_size, width, height, rectangles, pins, visited, ticks>>

start_quads(count) ==
    /\ \E qs \in [1..count -> PlacedQuads] :
          quadcopters' = [i \in 1..count |-> qs[i]]
    /\ \E pd \in PlacedPurple : purple_drone' = <<pd>>
    /\ timer_active' = (quadcopters' # <<>>)
    /\ purple_pins' = <<>>
    /\ UNCHANGED <<cell_size, width, height, rectangles, pins, visited, ticks>>

---------------------------------------------------------------------------
(* GridCanvas._tick: the motion of one quadcopter.                         *)

\* the two moves with a blocked move dropped and the velocity kept
MoveAxes_keep_velocity(q) ==
    LET blocked_x == _bbox_intersects_rects(BBox(q.x + q.vx, q.y, q.size))
        x1 == IF blocked_x THEN q.x ELSE q.x + q.vx
        blocked_y == _bbox_intersects_rects(BBox(x1, q.y + q.vy, q.size))
        y1 == IF blocked_y THEN q.y ELSE q.y + q.vy
    IN  [q EXCEPT !.x = x1, !.y = y1]

\* the moves with the Y movement made without looking at the rectangles
MoveAxes_unchecked_y(q) ==
    LET blocked_x == _bbox_intersects_rects(BBox(q.x + q.vx, q.y, q.size))
        x1 == IF blocked_x THEN q.x ELSE q.x + q.vx
        vx1 == IF blocked_x THEN -q.vx ELSE q.vx
    IN  [q EXCEPT !.x = x1, !.y = q.y + q.vy, !.vx = vx1]

\* X movement, then Y movement: a move whose box meets a rectangle is not
\* made and reverses the velocity on that axis
MoveAxes(q) ==
    LET blocked_x == _bbox_intersects_rects(BBox(q.x + q.vx, q.y, q.size))
        x1 == IF blocked_x THEN q.x ELSE q.x + q.vx
        vx1 == IF blocked_x THEN -q.vx ELSE q.vx
        blocked_y == _bbox_intersects_rects(BBox(x1, q.y + q.vy, q.size))
        y1 == IF blocked_y THEN q.y ELSE q.y + q.vy
        vy1 == IF blocked_y THEN -q.vy ELSE q.vy
    IN  [q EXCEPT !.x = x1, !.y = y1, !.vx = vx1, !.vy = vy1]

\* for _ in range(n): move along the velocity, stop at the first free box
RECURSIVE nudge_loop(_, _)
nudge_loop(q, n) ==
    IF n = 0 THEN [q |-> q, nudged |-> FALSE]
    ELSE LET q1 == [q EXCEPT !.x = q.x + q.vx, !.y = q.y + q.vy]
         IN  IF ~_bbox_intersects_rects(QuadBox(q1))
             THEN [q |-> q1, nudged |-> TRUE]
             ELSE nudge_loop(q1, n - 1)

\* the nudges of a quadcopter still overlapping after both moves; when none
\* frees it, a fresh random velocity
Recover(q) ==
    IF _bbox_intersects_rects(QuadBox(q))
    THEN LET r == nudge_loop(q, 6)
         IN  IF r.nudged THEN {r.q}
             ELSE {[r.q EXCEPT !.vx = v[1], !.vy = v[2]] : v \in VelSamples}
    ELSE {q}

\* if abs(new_v) < 0.15: new_v = 0.15 * (1 if new_v >= 0 else -1)
MinSpeed(new_v) ==
    IF Abs(new_v) < 3 THEN 3 * (IF new_v >= 0 THEN 1 ELSE -1) ELSE new_v

\* the reflected velocities of an ordinary quadcopter
Reflected(v) == {MinSpeed(-v + j) : j \in JitterSamples}

\* the reflected velocities of the purple drone
ReflectedPurple(v) == {-v + j : j \in JitterSamples}

\* the reflected velocities of the purple drone or of an ordinary quadcopter
Refl(purple, v) == IF purple THEN ReflectedPurple(v) ELSE Reflected(v)

\* the four bounds checks in the order of the code
BounceX0(q, purple) ==
    IF q.x - q.size \div 2 < Area.x0
    THEN {[q EXCEPT !.x = Area.x0 + q.size \div 2, !.vx = v] : v \in Refl(purple, q.vx)}
    ELSE {q}

BounceX1(q, purple) ==
    IF q.x + q.size \div 2 > Area.x1
    THEN {[q EXCEPT !.x = Area.x1 - q.size \div 2, !.vx = v] : v \in Refl(purple, q.vx)}
    ELSE {q}

BounceY0(q, purple) ==
    IF q.y - q.size \div 2 < Area.y0
    THEN {[q EXCEPT !.y = Area.y0 + q.size \div 2, !.vy = v] : v \in Refl(purple, q.vy)}
    ELSE {q}

BounceY1(q, purple) ==
    IF q.y + q.size \div 2 > Area.y1
    THEN {[q EXCEPT !.y = Area.y1 - q.size \div 2, !.vy = v] : v \in Refl(purple, q.vy)}
    ELSE {q}

\* the bounds checks without the two upper ones
BounceLowOnly(q, purple) ==
    UNION {BounceY0(b, purple) : b \in BounceX0(q, purple)}

Bounce(q, purple) ==
    LET s1 == BounceX0(q, purple)
        s2 == UNION {BounceX1(b, purple) : b \in s1}
        s3 == UNION {BounceY0(b, purple) : b \in s2}
    IN  UNION {BounceY1(b, purple) : b \in s3}

\* the drain without max(0.0, ...)
Drain_below_zero(q, amount) == [q EXCEPT !.battery = q.battery - amount]

\* q['battery'] = max(0.0, q['battery'] - amount)
Drain(q, amount) == [q EXCEPT !.battery = Max(0, q.battery - amount)]

\* the states one ordinary quadcopter can have after the loop body of _tick
TickQuad(q) ==
    LET recovered == Recover(MoveAxes(q))
        bounced == UNION {Bounce(r, FALSE) : r \in recovered}
    IN  {Drain(b, 2) : b \in bounced}

\* the states the purple drone can have after its part of _tick
TickPurple(pd) ==
    {Drain(b, 3) : b \in Bounce(MoveAxes(pd), TRUE)}

\* the cell of a position: (row_idx, col_idx)
CellOf(q) == <<q.y \div Px(cell_size), q.x \div Px(cell_size)>>

\* the content-area test without its test of the header row and column
InContentArea_no_header_test(cell) ==
    LET total_cols == Max(1, Max(1, width) \div cell_size)
        total_rows == Max(1, Max(1, height) \div cell_size)
    IN  cell[2] < total_cols /\ cell[1] < total_rows

\* the content-area test of _tick
InContentArea(cell) ==
    LET total_cols == Max(1, Max(1, width) \div cell_size)
        total_rows == Max(1, Max(1, height) \div cell_size)
    IN  cell[1] >= 1 /\ cell[2] >= 1 /\ cell[2] < total_cols /\ cell[1] < total_rows

MarkedCells(agents) ==
    {c \in {CellOf(agents[i]) : i \in 1..Len(agents)} : InContentArea(c)}

\* every list whose i-th element is taken from the i-th set
RECURSIVE ListsOver(_)
ListsOver(sets) ==
    IF sets = <<>> THEN {<<>>}
    ELSE {<<e>> \o rest : e \in Head(sets), rest \in ListsOver(Tail(sets))}

\* One timeout of _anim_timer.  With no quadcopter _tick returns at once.
_tick ==
    /\ timer_active
    /\ ticks < MaxTicks
    /\ ticks' = ticks + 1
    /\ IF quadcopters = <<>>
       THEN UNCHANGED <<quadcopters, purple_drone, visited>>
       ELSE \E qs \in ListsOver([i \in 1..Len(quadcopters) |-> TickQuad(quadcopters[i])]),
               pd \in ListsOver([i \in 1..Len(purple_drone) |-> TickPurple(purple_drone[i])]) :
               /\ quadcopters' = qs
               /\ purple_drone' = pd
               /\ visited' = visited \cup MarkedCells(qs) \cup MarkedCells(pd)
    /\ UNCHANGED <<cell_size, width, height, timer_active, rectangles, pins, purple_pins>>

---------------------------------------------------------------------------
(* Rectangles and pins.                                                    *)

\* The rectangles a drag can leave in _current_rect, as samples placed
\* against the corner the bounds checks put a quadcopter in: a strip one
\* pixel to the right of that box, a strip one pixel below it, a square
\* covering two pixels of its lower right corner, and the whole widget.
RectSamples ==
    LET a == Area
        size == QuadSize
    IN  {QRectF(a.x0 + size + Px(1), 0, Px(20), Px(height)),
         QRectF(0, a.y0 + size + Px(1), Px(width), Px(20)),
         QRectF(a.x0 + size - Px(2), a.y0 + size - Px(2), Px(30), Px(30)),
         QRectF(0, 0, Px(width), Px(height))}

\* mouseReleaseEvent at the end of a drag: the drawn rectangle is appended
mouseReleaseEvent(current_rect) ==
    /\ Len(rectangles) < MaxRects
    /\ rectangles' = Append(rectangles, current_rect)
    /\ UNCHANGED <<cell_size, width, height, quadcopters, purple_drone,
                   timer_active, pins, purple_pins, visited, ticks>>

\* clear_rectangles that clears the purple pins with the rectangles
clear_rectangles_and_purple_pins ==
    /\ rectangles' = <<>>
    /\ purple_pins' = <<>>
    /\ UNCHANGED <<cell_size, width, height, quadcopters, purple_drone,
                   timer_active, pins, visited, ticks>>

clear_rectangles ==
    /\ rectangles' = <<>>
    /\ UNCHANGED <<cell_size, width, height, quadcopters, purple_drone,
                   timer_active, pins, purple_pins, visited, ticks>>

\* whether key is an element of the list
InList(key, list) == \E i \in 1..Len(list) : list[i] = key

\* add_pin that appends without looking for the key
add_pin_no_check(row_letter, col_num) ==
    /\ pins' = Append(pins, <<upper(row_letter), col_num>>)
    /\ UNCHANGED <<cell_size, width, height, quadcopters, purple_drone,
                   timer_active, rectangles, purple_pins, visited, ticks>>

add_pin(row_letter, col_num) ==
    LET key == <<upper(row_letter), col_num>>
    IN  /\ pins' = IF InList(key, pins) THEN pins ELSE Append(pins, key)
        /\ UNCHANGED <<cell_size, width, height, quadcopters, purple_drone,
                       timer_active, rectangles, purple_pins, visited, ticks>>

\* the rows and columns given to add_pin: "a", "A", "B" and 1
PinRowSamples == {<<97>>, <<65>>, <<66>>}

PinColSamples == {1}

\* place_purple_pindrop without the test of the header row and column
place_purple_pindrop_no_header_test ==
    /\ purple_pins' =
          IF purple_drone = <<>> THEN purple_pins
          ELSE LET cell == CellOf(purple_drone[1])
                   key == <<upper(_index_to_letters(cell[1])), cell[2]>>
               IN  IF InList(key, purple_pins) THEN purple_pins
                   ELSE Append(purple_pins, key)
    /\ UNCHANGED <<cell_size, width, height, quadcopters, purple_drone,
                   timer_active, rectangles, pins, visited, ticks>>

place_purple_pindrop ==
    /\ purple_pins' =
          IF purple_drone = <<>> THEN purple_pins
          ELSE LET cell == CellOf(purple_drone[1])
                   row_idx == cell[1]
                   col_idx == cell[2]
               IN  IF row_idx < 1 \/ col_idx < 1 THEN purple_pins
                   ELSE LET key == <<upper(_index_to_letters(row_idx)), col_idx>>
                        IN  IF InList(key, purple_pins) THEN purple_pins
                            ELSE Append(purple_pins, key)
    /\ UNCHANGED <<cell_size, width, height, quadcopters, purple_drone,
                   timer_active, rectangles, pins, visited, ticks>>

---------------------------------------------------------------------------
(* The canvas: every operation of GridCanvas, in any order.                *)

NoCall == [op |-> "none"]

CanvasInit ==
    /\ \E p \in Planes : cell_size = p.cs /\ width = p.w /\ height = p.h
    /\ quadcopters = <<>>
    /\ purple_drone = <<>>
    /\ timer_active = FALSE
    /\ rectangles = <<>>
    /\ pins = <<>>
    /\ purple_pins = <<>>
    /\ visited = {}
    /\ ticks = 0

SerialInit ==
    /\ rx_thread = "none"
    /\ rx_stop = FALSE
    /\ rx_pc = "idle"
    /\ rx_raw = <<>>
    /\ pending = <<>>

Init == CanvasInit /\ SerialInit /\ last_call = NoCall

serial_unchanged == UNCHANGED <<rx_thread, rx_stop, rx_pc, rx_raw, pending, last_call>>

StartQuads == (\E count \in 0..MaxCount : start_quads(count)) /\ serial_unchanged

StopQuads == stop_quads /\ serial_unchanged

Tick == _tick /\ serial_unchanged

DrawRectangle == (\E r \in RectSamples : mouseReleaseEvent(r)) /\ serial_unchanged

ClearRectangles == clear_rectangles /\ serial_unchanged

AddPin ==
    (\E r \in PinRowSamples, c \in PinColSamples : add_pin(r, c)) /\ serial_unchanged

PinButton == place_purple_pindrop /\ serial_unchanged

\* what the window's controls and the animation timer can do to the canvas
Next ==
    \/ StartQuads
    \/ StopQuads
    \/ Tick
    \/ DrawRectangle
    \/ ClearRectangles
    \/ PinButton

Spec == Init /\ [][Next]_vars

---------------------------------------------------------------------------
(* The canvas in a window that is resized while the animation runs.        *)

\* the sizes the layout gives the widget: its minimum size and a wider one
SizeSamples == {<<400, 300>>, <<540, 300>>}

\* the widget is given a new size; width() and height() are read by the
\* next start_quads and _tick
resize(w, h) ==
    /\ width' = w
    /\ height' = h
    /\ UNCHANGED <<cell_size, quadcopters, purple_drone, timer_active, rectangles,
                   pins, purple_pins, visited, ticks>>

Resize == (\E size \in SizeSamples : resize(size[1], size[2])) /\ serial_unchanged

ResizeNext ==
    \/ StartQuads
    \/ StopQuads
    \/ Tick
    \/ Resize

ResizeSpec == Init /\ [][ResizeNext]_vars

---------------------------------------------------------------------------
(* SerialReceiver: the pattern, start, stop and the worker running _run.   *)

\* the character classes of the pattern: \s, [A-Za-z] and \d
InClass(class, ch) ==
    CASE class = "space" -> IsSpace(ch)
      [] class = "letter" -> IsLetter(ch)
      [] class = "digit" -> IsDigit(ch)

\* the first position from i on whose character is not in the class
RECURSIVE Scan(_, _, _)
Scan(s, i, class) ==
    IF i <= Len(s) /\ InClass(class, s[i]) THEN Scan(s, i + 1, class) ELSE i

\* int() of a string of decimal digits
RECURSIVE int(_)
int(digits) ==
    IF digits = <<>> THEN 0
    ELSE 10 * int(SubSeq(digits, 1, Len(digits) - 1)) + (digits[Len(digits)] - 48)

\* a pattern that takes every line holding a letter, with column 0
pattern_match_any_letter(line) ==
    [matched |-> \E i \in 1..Len(line) : IsLetter(line[i]),
     group1 |-> SelectSeq(line, IsLetter),
     group2 |-> <<48>>]

\* re.compile(r"^\s*([A-Za-z]+)\s*,?\s*(\d+)\s*$").match(line): the two
\* groups of a match.  The classes of neighbouring parts are disjoint, so
\* the leftmost longest scan is the only way to match.
pattern_match(line) ==
    LET l0 == Scan(line, 1, "space")
        l1 == Scan(line, l0, "letter")
        c0 == Scan(line, l1, "space")
        c1 == IF c0 <= Len(line) /\ line[c0] = 44 THEN c0 + 1 ELSE c0
        d0 == Scan(line, c1, "space")
        d1 == Scan(line, d0, "digit")
        e == Scan(line, d1, "space")
    IN  [matched |-> l1 > l0 /\ d1 > d0 /\ e = Len(line) + 1,
         group1 |-> SubSeq(line, l0, l1 - 1),
         group2 |-> SubSeq(line, d0, d1 - 1)]

\* what ser.readline() returns: "B,9\n", "a 12", "garbage\n", "9B", " \n" and
\* b"" (the timeout)
RawSamples ==
    {<<66, 44, 57, 10>>, <<97, 32, 49, 50>>, <<103, 97, 114, 98, 97, 103, 101, 10>>,
     <<57, 66>>, <<32, 10>>, <<>>}

\* the got_pin emission of a line, or none: <<>> or <<(row, col)>>
Emission(raw) ==
    LET line == strip(raw)
        m == pattern_match(line)
    IN  IF raw = <<>> \/ line = <<>> \/ ~m.matched THEN <<>>
        ELSE <<[row |-> upper(m.group1), col |-> int(m.group2)]>>

\* the emission of every line readline returns, computed once
Emissions == [raw \in RawSamples |-> Emission(raw)]

\* SerialReceiver.start
start ==
    /\ IF rx_thread = "alive"
       THEN UNCHANGED <<rx_thread, rx_stop, rx_pc>>
       ELSE rx_stop' = FALSE /\ rx_thread' = "alive" /\ rx_pc' = "open"
    /\ UNCHANGED <<rx_raw, pending>>

\* SerialReceiver.stop: the flag is set and the join waits at most 2 seconds
stop ==
    /\ IF rx_thread = "alive" THEN rx_stop' = TRUE ELSE UNCHANGED rx_stop
    /\ UNCHANGED <<rx_thread, rx_pc, rx_raw, pending>>

\* _run: serial.Serial(...) opens the port or raises, and the thread ends
run_open ==
    /\ rx_thread = "alive" /\ rx_pc = "open"
    /\ \/ rx_pc' = "loop" /\ UNCHANGED rx_thread
       \/ rx_pc' = "idle" /\ rx_thread' = "dead"
    /\ UNCHANGED <<rx_stop, rx_raw, pending>>

\* _run with "while True" as its loop
run_loop_ignores_stop ==
    /\ rx_thread = "alive" /\ rx_pc = "loop"
    /\ rx_pc' = "readline"
    /\ UNCHANGED <<rx_thread, rx_stop, rx_raw, pending>>

\* _run: while not self._stop.is_set()
run_loop ==
    /\ rx_thread = "alive" /\ rx_pc = "loop"
    /\ IF rx_stop
       THEN rx_pc' = "idle" /\ rx_thread' = "dead"
       ELSE rx_pc' = "readline" /\ UNCHANGED rx_thread
    /\ UNCHANGED <<rx_stop, rx_raw, pending>>

\* _run: raw = ser.readline() returns a line or raises, and the loop goes on
run_readline ==
    /\ rx_thread = "alive" /\ rx_pc = "readline"
    /\ \/ \E raw \in RawSamples : rx_raw' = raw /\ rx_pc' = "line"
       \/ rx_pc' = "loop" /\ UNCHANGED rx_raw
    /\ UNCHANGED <<rx_thread, rx_stop, pending>>

\* _run: the rest of the loop body, from "if not raw" to got_pin.emit
run_line ==
    /\ rx_thread = "alive" /\ rx_pc = "line"
    /\ Len(pending \o Emissions[rx_raw]) <= MaxPending
    /\ pending' = pending \o Emissions[rx_raw]
    /\ rx_pc' = "loop"
    /\ UNCHANGED <<rx_thread, rx_stop, rx_raw>>

\* _on_serial_pin that places a pin at the coordinate of the message
_on_serial_pin_at_payload(row, col) ==
    /\ purple_pins' =
          IF InList(<<row, col>>, purple_pins) THEN purple_pins
          ELSE Append(purple_pins, <<row, col>>)
    /\ UNCHANGED <<cell_size, width, height, quadcopters, purple_drone,
                   timer_active, rectangles, pins, visited, ticks>>

\* MainWindow._on_serial_pin, the slot of got_pin
_on_serial_pin(row, col) == place_purple_pindrop

---------------------------------------------------------------------------
(* The receiver, the queued got_pin emissions and their slot, beside a     *)
(* canvas that is started and stopped.                                     *)

canvas_unchanged ==
    UNCHANGED <<cell_size, width, height, quadcopters, purple_drone, timer_active,
                rectangles, pins, purple_pins, visited, ticks, last_call>>

SerialStart == start /\ canvas_unchanged

SerialStop == stop /\ canvas_unchanged

WorkerOpen == run_open /\ canvas_unchanged

WorkerLoop == run_loop /\ canvas_unchanged

WorkerReadline == run_readline /\ canvas_unchanged

\* the worker calling the slot itself where it should emit
WorkerLine_calls_slot ==
    /\ rx_thread = "alive" /\ rx_pc = "line"
    /\ rx_pc' = "loop"
    /\ IF Emissions[rx_raw] = <<>>
       THEN UNCHANGED canvas_vars
       ELSE _on_serial_pin(Emissions[rx_raw][1].row, Emissions[rx_raw][1].col)
    /\ UNCHANGED <<rx_thread, rx_stop, rx_raw, pending, last_call>>

WorkerLine == run_line /\ canvas_unchanged

\* the GUI thread takes the oldest queued emission and calls the slot
Deliver ==
    /\ pending # <<>>
    /\ _on_serial_pin(Head(pending).row, Head(pending).col)
    /\ pending' = Tail(pending)
    /\ UNCHANGED <<rx_thread, rx_stop, rx_pc, rx_raw, last_call>>

SerialSpecInit ==
    /\ cell_size = 70 /\ width = 400 /\ height = 300
    /\ quadcopters = <<>>
    /\ purple_drone = <<>>
    /\ timer_active = FALSE
    /\ rectangles = <<>>
    /\ pins = <<>>
    /\ purple_pins = <<>>
    /\ visited = {}
    /\ ticks = 0
    /\ SerialInit
    /\ last_call = NoCall

SerialNext ==
    \/ SerialStart
    \/ SerialStop
    \/ WorkerOpen
    \/ WorkerLoop
    \/ WorkerReadline
    \/ WorkerLine
    \/ Deliver
    \/ StartQuads
    \/ StopQuads

SerialSpec == SerialSpecInit /\ [][SerialNext]_vars

\* the receiver left running beside a canvas that is started and ticks
DeliveryNext ==
    \/ SerialStart
    \/ WorkerOpen
    \/ WorkerLoop
    \/ WorkerReadline
    \/ WorkerLine
    \/ Deliver
    \/ StartQuads
    \/ Tick

DeliverySpec == SerialSpecInit /\ [][DeliveryNext]_vars

\* The receiver and the slot alone, with the scheduling they run under: a
\* started thread runs, serial.Serial and readline return (readline within
\* its timeout of one second), and the event loop of the GUI thread delivers
\* every queued emission.
ReceiverNext ==
    \/ SerialStart
    \/ SerialStop
    \/ WorkerOpen
    \/ WorkerLoop
    \/ WorkerReadline
    \/ WorkerLine
    \/ Deliver

ReceiverSpec ==
    /\ SerialSpecInit
    /\ [][ReceiverNext]_vars
    /\ WF_vars(WorkerOpen)
    /\ WF_vars(WorkerLoop)
    /\ WF_vars(WorkerReadline)
    /\ WF_vars(WorkerLine)
    /\ WF_vars(Deliver)

---------------------------------------------------------------------------
(* The play button: it starts the receiver and the quadcopters when it is  *)
(* checked and stops both when it is released.                             *)

\* MainWindow._on_play_toggled, the slot of the play button's toggled signal
_on_play_toggled(checked) ==
    /\ IF checked
       THEN start /\ start_quads(3)
       ELSE stop_quads /\ stop
    /\ UNCHANGED last_call

\* toggled is emitted when the button changes state, so the slot is called
\* with True and False in turn; the button is checked while the timer that
\* start_quads(3) starts is running
PlayOn == ~timer_active /\ _on_play_toggled(TRUE)

PlayOff == timer_active /\ _on_play_toggled(FALSE)

\* the play button beside the worker thread and the event loop, on a plane
\* with cells of 200 pixels
PlayInit ==
    /\ cell_size = 200 /\ width = 400 /\ height = 300
    /\ quadcopters = <<>>
    /\ purple_drone = <<>>
    /\ timer_active = FALSE
    /\ rectangles = <<>>
    /\ pins = <<>>
    /\ purple_pins = <<>>
    /\ visited = {}
    /\ ticks = 0
    /\ SerialInit
    /\ last_call = NoCall

PlayNext ==
    \/ PlayOn
    \/ PlayOff
    \/ WorkerOpen
    \/ WorkerLoop
    \/ WorkerReadline
    \/ WorkerLine
    \/ Deliver

PlaySpec == PlayInit /\ [][PlayNext]_vars

---------------------------------------------------------------------------
(* The two pin lists: add_pin and the pin button on a running canvas.      *)

MarkerNext ==
    \/ StartQuads
    \/ StopQuads
    \/ Tick
    \/ AddPin
    \/ PinButton

MarkerSpec == Init /\ [][MarkerNext]_vars

---------------------------------------------------------------------------
(* Calls of the two conversions between row indices and row letters.       *)

\* the characters of the strings given to _letters_to_index:
\* "A", "B", "Z", "a", "z", "1", " "
LabelChars == {65, 66, 90, 97, 122, 49, 32}

RECURSIVE StringsUpTo(_)
StringsUpTo(n) ==
    IF n = 0 THEN {<<>>}
    ELSE LET shorter == StringsUpTo(n - 1)
         IN  shorter \cup {Append(t, c) : t \in shorter, c \in LabelChars}

\* a call of _index_to_letters(n) and what it returns
CallIndexToLetters ==
    /\ \E n \in 1..MaxIndex :
          last_call' = [op |-> "_index_to_letters", arg |-> n, raised |-> FALSE,
                        result |-> _index_to_letters(n)]
    /\ UNCHANGED <<cell_size, width, height, quadcopters, purple_drone, timer_active,
                   rectangles, pins, purple_pins, visited, ticks>>
    /\ UNCHANGED <<rx_thread, rx_stop, rx_pc, rx_raw, pending>>

\* a call of _letters_to_index(s) and what it returns; no statement of it raises
CallLettersToIndex ==
    /\ \E t \in StringsUpTo(MaxLen) :
          last_call' = [op |-> "_letters_to_index", arg |-> t, raised |-> FALSE,
                        result |-> _letters_to_index(t)]
    /\ UNCHANGED <<cell_size, width, height, quadcopters, purple_drone, timer_active,
                   rectangles, pins, purple_pins, visited, ticks>>
    /\ UNCHANGED <<rx_thread, rx_stop, rx_pc, rx_raw, pending>>

CoordNext ==
    \/ CallIndexToLetters
    \/ CallLettersToIndex

CoordSpec == SerialSpecInit /\ [][CoordNext]_vars

---------------------------------------------------------------------------
(* Properties of start_quads, stop_quads and _tick.                        *)

\* a step of _tick: nothing else counts ticks
TickStep == ticks' = ticks + 1

\* C1: a step of start_quads(count) ends with exactly count quadcopters and
\* one purple drone, whatever existed before it; a step of stop_quads ends
\* with no quadcopter and no purple drone.
C1_StartStopCounts ==
    [][/\ \A count \in 0..MaxCount :
             start_quads(count) =>
                 Len(quadcopters') = count /\ Len(purple_drone') = 1
       /\ stop_quads => quadcopters' = <<>> /\ purple_drone' = <<>>]_vars

\* a restart: every tick is used up, and the quadcopters are fresh again
C1_Witness ==
    /\ ticks = MaxTicks
    /\ visited # {}
    /\ Len(quadcopters) = MaxCount
    /\ Len(purple_drone) = 1
    /\ \A i \in 1..Len(quadcopters) : quadcopters[i].battery \in BatterySamples(60)

\* the box of q lies between one cell and the extent less one cell, on both axes
InsidePlayable(q) ==
    LET half == q.size \div 2
    IN  /\ Px(cell_size) <= q.x - half
        /\ q.x + half <= Px(width) - Px(cell_size)
        /\ Px(cell_size) <= q.y - half
        /\ q.y + half <= Px(height) - Px(cell_size)

\* the playable area is at least 10 pixels and at least one quadcopter wide
\* and high
PlayableFits ==
    /\ Px(width) - 2 * Px(cell_size) >= Max(Px(10), QuadSize)
    /\ Px(height) - 2 * Px(cell_size) >= Max(Px(10), QuadSize)

AllInsidePlayable ==
    /\ \A i \in 1..Len(quadcopters) : InsidePlayable(quadcopters[i])
    /\ \A i \in 1..Len(purple_drone) : InsidePlayable(purple_drone[i])

\* C2 as stated: after every tick every box lies inside the playable area,
\* for every plane size and cell size.
C2_AnyPlane == [][TickStep => AllInsidePlayable']_vars

\* C2, amended: after every tick on a plane whose playable area is at least
\* 10 pixels and at least one quadcopter wide and high, the box of every
\* quadcopter and of the purple drone lies inside the playable area.
C2_InsideWhenFits == [][TickStep /\ PlayableFits => AllInsidePlayable']_vars

\* a ticked quadcopter put against the upper bounds by the bounds checks
C2_Witness ==
    /\ PlayableFits
    /\ \E i \in 1..Len(quadcopters) :
          LET q == quadcopters[i]
          IN  /\ q.battery \notin BatterySamples(60)
              /\ q.x + q.size \div 2 = Area.x1
              /\ q.y + q.size \div 2 = Area.y1

\* the position of q before the bounds checks of its tick
BeforeBounce(q, recovers) ==
    LET m == MoveAxes(q)
    IN  IF recovers /\ _bbox_intersects_rects(QuadBox(m)) THEN nudge_loop(m, 6).q ELSE m

\* whether a bounds check of the X axis (of the Y axis) fires at position p
BouncesX(p) ==
    LET half == p.size \div 2
        x == IF p.x - half < Area.x0 THEN Area.x0 + half ELSE p.x
    IN  p.x - half < Area.x0 \/ x + half > Area.x1

BouncesY(p) ==
    LET half == p.size \div 2
        y == IF p.y - half < Area.y0 THEN Area.y0 + half ELSE p.y
    IN  p.y - half < Area.y0 \/ y + half > Area.y1

BlockedX(q) == _bbox_intersects_rects(BBox(q.x + q.vx, q.y, q.size))

BlockedY(q) == _bbox_intersects_rects(BBox(MoveAxes(q).x, q.y + q.vy, q.size))

\* whether the tick of q ends its recovery with a fresh random velocity
Rerandomised(q) ==
    LET m == MoveAxes(q)
    IN  _bbox_intersects_rects(QuadBox(m)) /\ ~nudge_loop(m, 6).nudged

\* the velocity component changed sign and the position did not advance along it
Deflected(v, v2, p, p2) == Sign(v2) = -Sign(v) /\ Sign(v) # 0 /\ (p2 - p) * v <= 0

\* C3 as stated: a blocked move on an axis whose bounds checks do not fire
\* leaves the velocity on that axis with the opposite sign and the position
\* not advanced, for every quadcopter and for the purple drone.
C3_AlwaysDeflected ==
    [][TickStep /\ quadcopters # <<>> =>
          /\ \A i \in 1..Len(quadcopters) :
                LET q == quadcopters[i]
                    q2 == quadcopters'[i]
                    p == BeforeBounce(q, TRUE)
                IN  /\ BlockedX(q) /\ ~BouncesX(p) => Deflected(q.vx, q2.vx, q.x, q2.x)
                    /\ BlockedY(q) /\ ~BouncesY(p) => Deflected(q.vy, q2.vy, q.y, q2.y)
          /\ \A i \in 1..Len(purple_drone) :
                LET q == purple_drone[i]
                    q2 == purple_drone'[i]
                    p == BeforeBounce(q, FALSE)
                IN  /\ BlockedX(q) /\ ~BouncesX(p) => Deflected(q.vx, q2.vx, q.x, q2.x)
                    /\ BlockedY(q) /\ ~BouncesY(p) => Deflected(q.vy, q2.vy, q.y, q2.y)]_vars

\* C3, amended: a blocked move on an axis whose bounds checks do not fire
\* leaves the velocity on that axis with the opposite sign and the position
\* not advanced, unless the recovery of that tick ends by drawing a fresh
\* random velocity (the box of a quadcopter still met a rectangle after both
\* moves and after each of the 6 nudges).
C3_DeflectedUnlessRerandomised ==
    [][TickStep /\ quadcopters # <<>> =>
          /\ \A i \in 1..Len(quadcopters) :
                LET q == quadcopters[i]
                    q2 == quadcopters'[i]
                    p == BeforeBounce(q, TRUE)
                IN  ~Rerandomised(q) =>
                      /\ BlockedX(q) /\ ~BouncesX(p) => Deflected(q.vx, q2.vx, q.x, q2.x)
                      /\ BlockedY(q) /\ ~BouncesY(p) => Deflected(q.vy, q2.vy, q.y, q2.y)
          /\ \A i \in 1..Len(purple_drone) :
                LET q == purple_drone[i]
                    q2 == purple_drone'[i]
                    p == BeforeBounce(q, FALSE)
                IN  /\ BlockedX(q) /\ ~BouncesX(p) => Deflected(q.vx, q2.vx, q.x, q2.x)
                    /\ BlockedY(q) /\ ~BouncesY(p) => Deflected(q.vy, q2.vy, q.y, q2.y)]_vars

\* a quadcopter that the bounds checks put against the lower X bound in its
\* first tick and that the strip to its right turned back in its second
C3_Witness ==
    /\ PlayableFits
    /\ \E r \in 1..Len(rectangles) :
          rectangles[r] = QRectF(Area.x0 + QuadSize + Px(1), 0, Px(20), Px(height))
    /\ \E i \in 1..Len(quadcopters) :
          LET q == quadcopters[i]
          IN  /\ q.battery \in {Drain(Drain(b, 2), 2).battery :
                                  b \in {[battery |-> bat] : bat \in BatterySamples(60)}}
              /\ q.x - q.size \div 2 = Area.x0
              /\ q.vx < 0

---------------------------------------------------------------------------
(* Properties of the pin lists and of place_purple_pindrop.                *)

NoDuplicates(list) == \A i, j \in 1..Len(list) : list[i] = list[j] => i = j

\* C4: neither pins nor purple_pins ever holds one cell address twice, and a
\* step of add_pin or of place_purple_pindrop for an address its list already
\* holds leaves the list as it was.
C4_MarkersUnique ==
    /\ [](NoDuplicates(pins) /\ NoDuplicates(purple_pins))
    /\ [][/\ \A row \in PinRowSamples, col \in PinColSamples :
                add_pin(row, col) /\ InList(<<upper(row), col>>, pins) => pins' = pins
          /\ place_purple_pindrop
                /\ purple_drone # <<>>
                /\ InList(<<_index_to_letters(CellOf(purple_drone[1])[1]),
                            CellOf(purple_drone[1])[2]>>, purple_pins)
                => purple_pins' = purple_pins]_vars

\* both lists hold two addresses, so every further request for one of them
\* is a request for an address already present
C4_Witness ==
    /\ Len(pins) = 2
    /\ Len(purple_pins) = 2
    /\ purple_drone # <<>>
    /\ InList(<<_index_to_letters(CellOf(purple_drone[1])[1]),
                CellOf(purple_drone[1])[2]>>, purple_pins)

\* the elements of a list
Elements(list) == {list[i] : i \in 1..Len(list)}

\* C5: a step of place_purple_pindrop changes nothing when there is no purple
\* drone or when the drone's row or column index is below 1; otherwise
\* purple_pins gains exactly the address (letters of y // cell_size,
\* x // cell_size) of the drone, once, and nothing else changes.
C5_PlaceAtDrone ==
    [][place_purple_pindrop =>
          LET x == purple_drone[1].x \div Px(cell_size)
              y == purple_drone[1].y \div Px(cell_size)
              key == <<_index_to_letters(y), x>>
          IN  IF purple_drone = <<>> \/ y < 1 \/ x < 1
              THEN UNCHANGED canvas_vars
              ELSE /\ Elements(purple_pins') = Elements(purple_pins) \cup {key}
                   /\ Len(purple_pins') =
                          Len(purple_pins) + (IF key \in Elements(purple_pins) THEN 0 ELSE 1)
                   /\ SubSeq(purple_pins', 1, Len(purple_pins)) = purple_pins
                   /\ UNCHANGED <<cell_size, width, height, quadcopters, purple_drone,
                                  timer_active, rectangles, pins, visited, ticks>>]_vars

\* a pin was placed at the drone's cell, and the drone has since been put
\* into the header column, where a further request places nothing
C5_Witness ==
    /\ purple_pins # <<>>
    /\ purple_drone # <<>>
    /\ purple_drone[1].x \div Px(cell_size) < 1

\* C10: no step takes a cell out of visited.
C10_VisitedNeverShrinks == [][visited \subseteq visited']_vars

\* the simulation was stopped after it had marked cells, and they are kept
C10_Witness ==
    /\ visited # {}
    /\ quadcopters = <<>>
    /\ purple_drone = <<>>
    /\ ~timer_active

---------------------------------------------------------------------------
(* Properties of the serial receiver and of the slot of got_pin.           *)

\* the list purple_pins after a pin is requested at the purple drone: a
\* function of the canvas alone
PlacedAtDrone ==
    IF purple_drone = <<>> THEN purple_pins
    ELSE LET x == purple_drone[1].x \div Px(cell_size)
             y == purple_drone[1].y \div Px(cell_size)
             key == <<_index_to_letters(y), x>>
         IN  IF y < 1 \/ x < 1 \/ key \in Elements(purple_pins) THEN purple_pins
             ELSE Append(purple_pins, key)

\* a step that delivers the oldest queued emission to its slot
DeliverStep == Len(pending') = Len(pending) - 1

\* C6: the delivery of one got_pin emission takes exactly that emission from
\* the queue and leaves the canvas as one pin request at the purple drone
\* leaves it, whatever row and column the emission carries; pins and every
\* other field of the canvas are unchanged.
C6_EventPlacesAtDrone ==
    [][DeliverStep =>
          /\ pending' = Tail(pending)
          /\ purple_pins' = PlacedAtDrone
          /\ UNCHANGED <<cell_size, width, height, quadcopters, purple_drone,
                         timer_active, rectangles, pins, visited, ticks>>]_vars

\* two emissions were delivered, a tick apart: the pins are at the two cells
\* the drone was in, which no sampled line names
C6_Witness ==
    /\ pending = <<>>
    /\ purple_drone # <<>>
    /\ Len(purple_pins) = 2
    /\ \A i \in 1..Len(purple_pins) :
          purple_pins[i] \notin {<<<<66>>, 9>>, <<<<65>>, 12>>}

\* the line, stripped of surrounding white space, is letters, then white
\* space with at most one comma in it, then digits
WellFormed(raw) ==
    LET line == strip(raw)
        n == Len(line)
    IN  \E b \in 1..n, c \in 1..n :
           /\ b < c
           /\ \A i \in 1..b : IsLetter(line[i])
           /\ \A i \in c..n : IsDigit(line[i])
           /\ \A i \in (b + 1)..(c - 1) : IsSpace(line[i]) \/ line[i] = 44
           /\ Cardinality({i \in (b + 1)..(c - 1) : line[i] = 44}) <= 1

\* a step of the worker from a line it has read back to the head of its loop
LineStep == rx_pc = "line" /\ rx_pc' # "line"

\* C7: when the worker has read a line that is not well formed, its step
\* queues no emission, changes nothing on the canvas, and leaves the worker
\* alive at the head of its loop; when the line is well formed, the step
\* queues exactly one emission.
C7_MalformedLineIgnored ==
    [][LineStep =>
          /\ rx_thread' = "alive" /\ rx_pc' = "loop"
          /\ UNCHANGED canvas_vars
          /\ IF WellFormed(rx_raw)
             THEN Len(pending') = Len(pending) + 1
             ELSE pending' = pending]_vars

\* the worker is back at the head of its loop after "garbage\n", nothing is
\* queued and no pin was placed
C7_Witness ==
    /\ rx_thread = "alive"
    /\ rx_pc = "loop"
    /\ rx_raw = <<103, 97, 114, 98, 97, 103, 101, 10>>
    /\ pending = <<>>
    /\ purple_pins = <<>>
    /\ purple_drone # <<>>

---------------------------------------------------------------------------
(* Properties of _index_to_letters and _letters_to_index.                  *)

\* the value of a string of capital letters in bijective base 26
RECURSIVE Base26(_)
Base26(s) ==
    IF s = <<>> THEN 0
    ELSE 26 * Base26(SubSeq(s, 1, Len(s) - 1)) + (s[Len(s)] - 64)

\* C8: for every index n, _letters_to_index(_index_to_letters(n)) = n; the
\* letters are the bijective base 26 numeral of n (1 is A, 26 is Z, 27 is AA),
\* and no other index has the same letters.
C8_RoundTrip ==
    last_call.op = "_index_to_letters" =>
        LET n == last_call.arg
            letters == last_call.result
        IN  /\ _letters_to_index(letters) = n
            /\ \A i \in 1..Len(letters) : IsUpperLetter(letters[i])
            /\ Base26(letters) = n
            /\ n = 1 => letters = <<65>>
            /\ n = 26 => letters = <<90>>
            /\ n = 27 => letters = <<65, 65>>
            /\ \A m \in 1..MaxIndex : m # n => _index_to_letters(m) # letters

\* 703 was converted: the first index of three letters, AAA
C8_Witness ==
    /\ last_call.op = "_index_to_letters"
    /\ last_call.arg = 703
    /\ last_call.result = <<65, 65, 65>>

\* C9: a call of _letters_to_index with the empty string or with a string
\* that holds a character other than a letter raises.
C9_InvalidLabelRaises ==
    last_call.op = "_letters_to_index"
        /\ (last_call.arg = <<>> \/ \E i \in 1..Len(last_call.arg) : ~IsLetter(last_call.arg[i]))
        => last_call.raised

---------------------------------------------------------------------------
(* Properties of the visited cells, the rectangles and the pin lists       *)
(* across start, stop and tick.                                            *)

\* row and column are at least 1 and below the rows and columns of the plane
ContentCell(row, col) ==
    /\ row >= 1 /\ col >= 1
    /\ row < height \div cell_size
    /\ col < width \div cell_size

\* the cells of the quadcopters and of the purple drone
AgentCells ==
    {<<quadcopters[i].y \div Px(cell_size), quadcopters[i].x \div Px(cell_size)>> :
        i \in 1..Len(quadcopters)}
    \cup {<<purple_drone[i].y \div Px(cell_size), purple_drone[i].x \div Px(cell_size)>> :
             i \in 1..Len(purple_drone)}

\* C11: every cell a step adds to visited is a content-area cell of the
\* plane as it is at that step, and after every tick the cell of every
\* quadcopter and of the purple drone that is a content-area cell is in visited.
C11_VisitedInContentArea ==
    [][/\ \A c \in visited' \ visited : ContentCell(c[1], c[2])
       /\ TickStep =>
             \A c \in AgentCells' : ContentCell(c[1], c[2]) => c \in visited']_vars

\* a cell visited on the wide plane lies outside the columns of the plane
\* after the widget shrank
C11_Witness ==
    /\ \E c \in visited : c[2] >= width \div cell_size
    /\ \E c \in visited : c[2] < width \div cell_size

\* a step that empties a list of rectangles that held some
ClearStep == rectangles # <<>> /\ rectangles' = <<>>

\* C12: a step that empties the rectangles changes nothing else: pins,
\* purple_pins, visited, the quadcopters, the purple drone and the timer are
\* as before.
C12_ClearKeepsTheRest ==
    [][ClearStep =>
          UNCHANGED <<cell_size, width, height, quadcopters, purple_drone,
                      timer_active, pins, purple_pins, visited, ticks>>]_vars

\* the rectangles were cleared during a run: the purple drone is the one
\* start_quads falls back to when a rectangle blocks a drawn position (no
\* drawn battery level is above 80), and its pin and the timer are still there
C12_Witness ==
    /\ rectangles = <<>>
    /\ timer_active
    /\ purple_pins # <<>>
    /\ purple_drone # <<>>
    /\ \A bat \in BatterySamples(80) : purple_drone[1].battery > bat

\* a step of start_quads, of stop_quads or of _tick
RunStep == TickStep \/ stop_quads \/ \E count \in 0..MaxCount : start_quads(count)

\* C13 as stated: start_quads, stop_quads and _tick leave pins and
\* purple_pins exactly as they were.
C13_RunKeepsMarkers == [][RunStep => pins' = pins /\ purple_pins' = purple_pins]_vars

\* C13, amended: start_quads, stop_quads and _tick leave pins as it was and
\* _tick leaves purple_pins as it was; stop_quads, and start_quads through
\* its call of stop_quads, empty purple_pins.
C13_RunKeepsPinsOnly ==
    [][/\ RunStep => pins' = pins
       /\ TickStep => purple_pins' = purple_pins
       /\ (stop_quads \/ \E count \in 0..MaxCount : start_quads(count))
             => purple_pins' = <<>>]_vars

\* stopped after a run that marked cells: the pins are kept, the purple
\* pins are gone
C13_Witness ==
    /\ pins # <<>>
    /\ purple_pins = <<>>
    /\ quadcopters = <<>> /\ purple_drone = <<>>
    /\ visited # {}

\* no quadcopter, no purple drone and the timer not running
Stopped == quadcopters = <<>> /\ purple_drone = <<>> /\ ~timer_active

\* C14: a step of stop_quads ends in a stopped state, and a step of
\* stop_quads from a stopped state changes nothing at all: quadcopters,
\* purple drone, pins, purple_pins, visited, rectangles and timer are as before.
C14_StopIdempotent ==
    [][stop_quads => Stopped' /\ (Stopped => UNCHANGED canvas_vars)]_vars

\* stopped after a run, with a rectangle, a visited cell and every tick used
C14_Witness ==
    /\ Stopped
    /\ rectangles # <<>>
    /\ visited # {}
    /\ ticks = MaxTicks

---------------------------------------------------------------------------
(* Properties of the receiver thread.                                      *)

\* C15: once the stop flag is set while the worker thread is alive, the
\* thread eventually ends; and stop can be called in every state, also when
\* no thread was started and when the thread ended because the port could
\* not be opened.
C15_StopEndsWorker ==
    /\ (rx_thread = "alive" /\ rx_stop) ~> (rx_thread = "dead")
    /\ [](ENABLED SerialStop)

\* the worker read a line, was told to stop and has ended
C15_Witness ==
    /\ rx_thread = "dead"
    /\ rx_stop
    /\ rx_raw # <<>>

\* a step of the worker thread: it is somewhere in _run and moves on
WorkerStep == rx_pc # "idle" /\ rx_pc' # rx_pc

\* C16: a step of the worker thread changes nothing of the canvas and at
\* most appends one emission to the queue; every other step that changes the
\* queue takes exactly its oldest emission and is one pin request at the
\* purple drone, so no emission is dropped or handled twice.
C16_WorkerOnlyEnqueues ==
    [][/\ WorkerStep =>
             /\ UNCHANGED canvas_vars
             /\ Len(pending') \in {Len(pending), Len(pending) + 1}
             /\ SubSeq(pending', 1, Len(pending)) = pending
       /\ ~WorkerStep /\ pending' # pending =>
             /\ pending' = Tail(pending)
             /\ purple_pins' = PlacedAtDrone
             /\ UNCHANGED <<quadcopters, purple_drone, visited, pins, rectangles>>]_vars

\* the worker is reading again while an emission waits in the queue, and
\* the canvas has ticked and holds a pin of an earlier emission
C16_Witness ==
    /\ rx_pc = "readline"
    /\ Len(pending) = 1
    /\ purple_pins # <<>>
    /\ ticks = MaxTicks

---------------------------------------------------------------------------
(* Properties of the battery level and of the motion in _tick.             *)

\* battery levels a quadcopter can have come down to: 0, 0.01, 0.02, 0.03,
\* 50 and 100 percent
EnergySamples == {0, 1, 2, 3, 5000, 10000}

\* a battery level lowered by amount, not below 0
Lowered(bat, amount) == IF bat >= amount THEN bat - amount ELSE 0

\* position and velocity, without the battery level
Motion(q) == <<q.x, q.y, q.vx, q.vy>>

\* the tick of q gives the same positions and velocities with the battery
\* level e in place of its own, and lowers e by amount, not below 0
EnergyBlind(q, ticked(_), amount) ==
    \A e \in EnergySamples :
       LET alt == ticked([q EXCEPT !.battery = e])
       IN  /\ {Motion(r) : r \in alt} = {Motion(r) : r \in ticked(q)}
           /\ \A r \in alt : r.battery = Lowered(e, amount)

\* C17: every battery level is within 0 and 100 percent; a tick lowers the
\* level of every quadcopter by 0.02 and that of the purple drone by 0.03,
\* not below 0; and the positions and velocities a tick can give do not
\* depend on the battery level.
C17_EnergyDecays ==
    /\ [](\A i \in 1..Len(quadcopters) :
             /\ quadcopters[i].battery \in 0..10000
             /\ EnergyBlind(quadcopters[i], TickQuad, 2))
    /\ [](\A i \in 1..Len(purple_drone) :
             /\ purple_drone[i].battery \in 0..10000
             /\ EnergyBlind(purple_drone[i], TickPurple, 3))
    /\ [][TickStep /\ quadcopters # <<>> =>
             /\ \A i \in 1..Len(quadcopters) :
                   quadcopters'[i].battery = Lowered(quadcopters[i].battery, 2)
             /\ \A i \in 1..Len(purple_drone) :
                   purple_drone'[i].battery = Lowered(purple_drone[i].battery, 3)]_vars

\* every tick is used up and has lowered each battery level
C17_Witness ==
    /\ ticks = MaxTicks
    /\ quadcopters # <<>>
    /\ \A i \in 1..Len(quadcopters) :
          quadcopters[i].battery + 2 * MaxTicks \in BatterySamples(60)
    /\ \A i \in 1..Len(purple_drone) :
          purple_drone[i].battery + 3 * MaxTicks \in BatterySamples(80)

\* C18: after start_quads(count), for every count from 0 on, the animation
\* runs (the timer delivers ticks) as long as the purple drone exists, and
\* every tick moves the purple drone by the axis moves and bounds checks and
\* offers its cell to visited, whether or not a quadcopter exists.
C18_DroneAlwaysTicks ==
    /\ [](purple_drone # <<>> => timer_active)
    /\ [][TickStep /\ purple_drone # <<>> =>
             /\ purple_drone'[1] \in TickPurple(purple_drone[1])
             /\ MarkedCells(purple_drone') \subseteq visited']_vars

\* the states of an agent after a tick whose moves are followed by the
\* nudges and, when all 6 fail, by a fresh random velocity
TickRecovering(q, purple, amount) ==
    {Drain(b, amount) : b \in UNION {Bounce(r, purple) : r \in Recover(MoveAxes(q))}}

\* C19: in every tick, each quadcopter and the purple drone whose box still
\* meets a rectangle after its X and Y moves is nudged along its velocity at
\* most 6 times, up to the first nudge that frees the box, and is given a
\* fresh random velocity when all 6 nudges fail.
C19_EveryAgentRecovers ==
    [][TickStep /\ quadcopters # <<>> =>
          /\ \A i \in 1..Len(quadcopters) :
                quadcopters'[i] \in TickRecovering(quadcopters[i], FALSE, 2)
          /\ \A i \in 1..Len(purple_drone) :
                purple_drone'[i] \in TickRecovering(purple_drone[i], TRUE, 3)]_vars

\* the box of q meets no rectangle
Free(q) == \A r \in 1..Len(rectangles) : ~intersects(QuadBox(q), rectangles[r])

\* the X and Y moves of q keep a free box free, and make a move only to a
\* position where the box is free
MovesStayFree(q) ==
    LET m == MoveAxes(q)
    IN  Free(q) =>
           /\ Free(m)
           /\ m.x # q.x => Free([q EXCEPT !.x = m.x])
           /\ m.y # q.y => Free([q EXCEPT !.x = m.x, !.y = m.y])

\* C20: for every quadcopter and for the purple drone, a box that meets no
\* rectangle before a tick meets none after the X and Y moves of the tick,
\* before the bounds checks; the tick of such an agent is these moves
\* followed by the bounds checks.
C20_MovesKeepBoxFree ==
    /\ [](\A i \in 1..Len(quadcopters) : MovesStayFree(quadcopters[i]))
    /\ [](\A i \in 1..Len(purple_drone) : MovesStayFree(purple_drone[i]))
    /\ [][TickStep /\ quadcopters # <<>> =>
             /\ \A i \in 1..Len(quadcopters) :
                   Free(quadcopters[i]) =>
                      quadcopters'[i] \in
                         {Drain(b, 2) : b \in Bounce(MoveAxes(quadcopters[i]), FALSE)}
             /\ \A i \in 1..Len(purple_drone) :
                   Free(purple_drone[i]) =>
                      purple_drone'[i] \in
                         {Drain(b, 3) : b \in Bounce(MoveAxes(purple_drone[i]), TRUE)}]_vars

\* a quadcopter whose box is free and whose next Y move is blocked by a
\* rectangle, while its next X move is not
C20_Witness ==
    \E i \in 1..Len(quadcopters) :
       /\ Free(quadcopters[i])
       /\ BlockedY(quadcopters[i])
       /\ ~BlockedX(quadcopters[i])
       /\ timer_active

---------------------------------------------------------------------------
(* The receiver behind the play button.                                    *)

\* C21: when the play button is checked and start has returned, a worker
\* thread is alive and the stop flag is cleared, so that the worker goes on
\* to read lines and emit them; this is to hold in every interleaving, also
\* when the button was released before and the join of stop returned while
\* the earlier worker was still alive.
C21_StartLeavesListeningWorker ==
    [][PlayOn => rx_thread' = "alive" /\ ~rx_stop']_vars

=============================================================================
